---- MODULE Spec2Model ----
(***************************************************************************)
(* Model of client/ai_wrapper.py: the AIClient class (constructor with its *)
(* connectivity probe, chat, get_status, list_projects, reload_engine),    *)
(* the ChatResponse record and the quick_chat convenience function.        *)
(*                                                                         *)
(* Every operation is a blocking call: a "Call" action runs the code up to *)
(* the HTTP request, a "Return" action receives the outcome of the request *)
(* from the environment and runs the rest of the handler.                  *)
(*                                                                         *)
(* Strings are sequences of chunks (a chunk is a TLA+ string), so that     *)
(* concatenation, containment and rstrip are computed, not assumed.        *)
(***************************************************************************)
EXTENDS Integers, Sequences, FiniteSets, TLC

VARIABLES
    clients,      \* object id -> the AIClient's fields, or None before __init__
    given,        \* object id -> the arguments __init__ was called with
    pc,           \* "ready": no request in flight; "wait": blocked in requests.get/post
    frame,        \* who called the running method: "user" or "quick_chat"
    op,           \* the method running or last finished
    self,         \* the object the method runs on
    args,         \* prompt, project_url, images of the chat (or quick_chat) call
    request,      \* the HTTP request in flight or last sent
    reply,        \* the outcome of that request, None while in flight
    result,       \* what the method returned or raised
    qresponse,    \* quick_chat's local variable response
    nreq,         \* requests issued by the current invocation of a method
    printed,      \* what the running method printed: the warning of _verify_connection
    json_error    \* the class response.json() raises on a body that is not JSON

vars == <<clients, given, pc, frame, op, self, args, request, reply, result,
          qresponse, nreq, printed, json_error>>

-----------------------------------------------------------------------------
(* Bounds and program constants *)

MaxTrailingSlashes == 2

DefaultTimeout == 180
ProbeTimeout == 5
StatusTimeout == 5
ProjectsTimeout == 5
ReloadTimeout == 30

-----------------------------------------------------------------------------
(* Python values *)

None == [t |-> "None"]
PyStr(s) == [t |-> "str", v |-> s]
PyInt(n) == [t |-> "int", v |-> n]
PyList(l) == [t |-> "list", v |-> l]
PyDict(d) == [t |-> "dict", v |-> d]

Return(v) == [kind |-> "return", value |-> v]
Raise(cls, msg) == [kind |-> "raise", cls |-> cls, str |-> msg]

\* str(x) as an f-string renders it
Format(x) ==
    CASE x.t = "None" -> <<"None">>
      [] x.t = "str"  -> x.v
      [] x.t = "int"  -> <<ToString(x.v)>>
      [] OTHER        -> <<"repr">>

\* str.rstrip('/'): drops every trailing "/"
RECURSIVE rstrip(_)
rstrip(s) ==
    IF Len(s) > 0 /\ s[Len(s)] = "/"
    THEN rstrip(SubSeq(s, 1, Len(s) - 1))
    ELSE s

-----------------------------------------------------------------------------
(* The requests library as the code uses it *)

\* requests.exceptions: the direct base classes of each exception class
Bases(c) ==
    CASE c = "HTTPError"        -> {"RequestException"}
      [] c = "ConnectionError"  -> {"RequestException"}
      [] c = "Timeout"          -> {"RequestException"}
      [] c = "SSLError"         -> {"ConnectionError"}
      [] c = "ConnectTimeout"   -> {"ConnectionError", "Timeout"}
      [] c = "ReadTimeout"      -> {"Timeout"}
      [] c = "JSONDecodeError"  -> {"RequestException"}
      [] OTHER                  -> {}

\* isinstance(e, base), which decides whether "except base" catches e
RECURSIVE IsInstance(_, _)
IsInstance(c, base) ==
    c = base \/ \E b \in Bases(c) : IsInstance(b, base)

\* what can go wrong before a reply is received, and the exception raised for it
Faults == {"refused", "dns", "tls", "connect_timeout", "read_timeout"}

RaisedFor(fault) ==
    CASE fault = "refused"         -> "ConnectionError"
      [] fault = "dns"             -> "ConnectionError"
      [] fault = "tls"             -> "SSLError"
      [] fault = "connect_timeout" -> "ConnectTimeout"
      [] fault = "read_timeout"    -> "ReadTimeout"

\* the body of a reply: not JSON at all, JSON that is no object, or a JSON object
ChatKeys == {"status", "project_id", "response", "error", "images_uploaded"}

FieldValues(k) ==
    CASE k = "status"          -> {PyStr(<<"success">>), PyStr(<<"error">>)}
      [] k = "project_id"      -> {PyStr(<<"proj">>)}
      [] k = "response"        -> {PyStr(<<"X">>)}
      [] k = "error"           -> {PyStr(<<"E">>)}
      [] k = "images_uploaded" -> {PyInt(1)}

AllFieldValues == UNION {FieldValues(k) : k \in ChatKeys}

JsonObjects ==
    UNION {{d \in [D -> AllFieldValues] : \A k \in D : d[k] \in FieldValues(k)} :
           D \in SUBSET ChatKeys}

Bodies ==
    {[type |-> "text"], [type |-> "json", value |-> PyList(<<>>)]}
    \cup {[type |-> "json", value |-> PyDict(d)] : d \in JsonObjects}

StatusCodes == {200, 201, 300, 404, 503}

\* every way requests.get / requests.post can end
Outcomes ==
    {[kind |-> "exc", fault |-> f] : f \in Faults}
    \cup {[kind |-> "resp", code |-> c, body |-> b] : c \in StatusCodes, b \in Bodies}

\* the call itself: the Response, or the exception raised instead of one
send(o) ==
    IF o.kind = "exc"
    THEN Raise(RaisedFor(o.fault), <<o.fault>>)
    ELSE Return(o)

\* Response.raise_for_status(): HTTPError for a 4xx or 5xx status, else nothing
raise_for_status(o) ==
    IF 400 <= o.code /\ o.code < 600
    THEN Raise("HTTPError", <<"HTTP error for url">>)
    ELSE Return(None)

\* Response.json(): the decoded body, or the library's decode error
json(o, jerr) ==
    IF o.body.type = "json"
    THEN Return(o.body.value)
    ELSE Raise(jerr, <<"Expecting value">>)

\* data.get(key, default) of a dict
get(d, k, default) == IF k \in DOMAIN d THEN d[k] ELSE default

-----------------------------------------------------------------------------
(* ChatResponse *)

ChatResponse(status, project_id, response, error, images_uploaded) ==
    [status |-> status, project_id |-> project_id, response |-> response,
     error |-> error, images_uploaded |-> images_uploaded]

success(r) == r.status = PyStr(<<"success">>)

TimeoutMessage == <<"Request timeout", " - AI taking too long to respond">>
\* mutant: the detail alone, without the "Request failed: " prefix
FailedMessage_bare(detail) == detail

FailedMessage(detail) == <<"Request failed", ": ">> \o detail

-----------------------------------------------------------------------------
(* The methods, as functions of the outcome of their one request *)

\* mutant: the except clause names ConnectionError, so a read timeout escapes
verify_connection_narrow(o) ==
    LET r == send(o) IN
    IF r.kind = "raise"
    THEN IF IsInstance(r.cls, "ConnectionError")
         THEN [result |-> Return(None),
               printed |-> PyStr(<<"Warning: Could not connect to API: ">> \o r.str)]
         ELSE [result |-> r, printed |-> None]
    ELSE IF o.code # 200
         THEN [result |-> Return(None),
               printed |-> PyStr(<<"Warning: API returned status code ">>
                                 \o Format(PyInt(o.code)))]
         ELSE [result |-> Return(None), printed |-> None]

\* _verify_connection: the warning printed, and how the method ends
verify_connection(o) ==
    LET r == send(o) IN
    IF r.kind = "raise"
    THEN IF IsInstance(r.cls, "RequestException")
         THEN [result |-> Return(None),
               printed |-> PyStr(<<"Warning: Could not connect to API: ">> \o r.str)]
         ELSE [result |-> r, printed |-> None]
    ELSE IF o.code # 200
         THEN [result |-> Return(None),
               printed |-> PyStr(<<"Warning: API returned status code ">>
                                 \o Format(PyInt(o.code)))]
         ELSE [result |-> Return(None), printed |-> None]

\* mutant: a body without status counts as a success
chat_try_default_success(o, jerr) ==
    LET r == send(o) IN
    IF r.kind = "raise" THEN r
    ELSE LET s == raise_for_status(o) IN
    IF s.kind = "raise" THEN s
    ELSE LET data == json(o, jerr) IN
    IF data.kind = "raise" THEN data
    ELSE IF data.value.t # "dict" THEN Raise("AttributeError", <<"no attribute get">>)
    ELSE LET d == data.value.v IN
         Return(ChatResponse(get(d, "status", PyStr(<<"success">>)),
                             get(d, "project_id", None),
                             get(d, "response", None),
                             get(d, "error", None),
                             get(d, "images_uploaded", None)))

\* the try block of chat
chat_try(o, jerr) ==
    LET r == send(o) IN
    IF r.kind = "raise" THEN r
    ELSE LET s == raise_for_status(o) IN
    IF s.kind = "raise" THEN s
    ELSE LET data == json(o, jerr) IN
    IF data.kind = "raise" THEN data
    ELSE IF data.value.t # "dict" THEN Raise("AttributeError", <<"no attribute get">>)
    ELSE LET d == data.value.v IN
         Return(ChatResponse(get(d, "status", PyStr(<<"error">>)),
                             get(d, "project_id", None),
                             get(d, "response", None),
                             get(d, "error", None),
                             get(d, "images_uploaded", None)))

\* the two results chat builds in its except clauses
TimeoutResult ==
    Return(ChatResponse(PyStr(<<"error">>), None, None, PyStr(TimeoutMessage), None))
FailedResult(e) ==
    Return(ChatResponse(PyStr(<<"error">>), None, None, PyStr(FailedMessage(e.str)), None))

\* mutant: only the Timeout clause, every other RequestException escapes
chat_only_timeout_caught(o, jerr) ==
    LET r == chat_try(o, jerr) IN
    IF r.kind = "raise" /\ IsInstance(r.cls, "Timeout")
    THEN TimeoutResult
    ELSE r

\* mutant: the RequestException clause first, which shadows the Timeout clause
chat_generic_first(o, jerr) ==
    LET r == chat_try(o, jerr) IN
    IF r.kind = "raise" /\ IsInstance(r.cls, "RequestException")
    THEN FailedResult(r)
    ELSE IF r.kind = "raise" /\ IsInstance(r.cls, "Timeout")
    THEN TimeoutResult
    ELSE r

\* mutant: the second clause is "except Exception"
chat_catch_all(o, jerr) ==
    LET r == chat_try(o, jerr) IN
    IF r.kind = "raise" /\ IsInstance(r.cls, "Timeout")
    THEN TimeoutResult
    ELSE IF r.kind = "raise"
    THEN FailedResult(r)
    ELSE r

\* chat: the try block under its two except clauses, in their order
chat(o, jerr) ==
    LET r == chat_try(o, jerr) IN
    IF r.kind = "raise" /\ IsInstance(r.cls, "Timeout")
    THEN TimeoutResult
    ELSE IF r.kind = "raise" /\ IsInstance(r.cls, "RequestException")
    THEN FailedResult(r)
    ELSE r

\* mutant: raise_for_status is not called
fetch_json_unchecked(o, jerr) ==
    LET r == send(o) IN
    IF r.kind = "raise" THEN r
    ELSE json(o, jerr)

\* get_status, list_projects, reload_engine: request, raise_for_status, json
fetch_json(o, jerr) ==
    LET r == send(o) IN
    IF r.kind = "raise" THEN r
    ELSE LET s == raise_for_status(o) IN
    IF s.kind = "raise" THEN s
    ELSE json(o, jerr)

\* the return statement of quick_chat
quick_chat_return(response) ==
    IF success(response)
    THEN response.response
    ELSE PyStr(<<"Error: ">> \o Format(response.error))

-----------------------------------------------------------------------------
(* Inputs *)

RECURSIVE Slashes(_)
Slashes(k) == IF k = 0 THEN <<>> ELSE <<"/">> \o Slashes(k - 1)

Hosts == {<<"http://vm:8000", "/", "api">>}
BaseUrls == {h \o Slashes(k) : h \in Hosts, k \in 0..MaxTrailingSlashes}
Timeouts == {DefaultTimeout, 30}

ChatArgs ==
    [prompt : {PyStr(<<"Hi">>)},
     project_url : {None, PyStr(<<"https://imagine.wpp.ai/chat/P/foundational">>)},
     images : {None, PyList(<<"b64">>)}]

ClientIds == {"client", "quick"}
Methods == {"__init__", "chat", "get_status", "list_projects", "reload_engine"}

-----------------------------------------------------------------------------
(* State machine *)

Init ==
    /\ clients = [c \in ClientIds |-> None]
    /\ given = [c \in ClientIds |-> None]
    /\ pc = "ready"
    /\ frame = "user"
    /\ op = "none"
    /\ self = "client"
    /\ args = None
    /\ request = None
    /\ reply = None
    /\ result = None
    /\ qresponse = None
    /\ nreq = 0
    /\ printed = None
    /\ json_error \in {"ValueError", "JSONDecodeError"}

\* nothing is running; what the previous call left behind is dropped by the next
Idle == pc = "ready" /\ frame = "user"

\* requests.get / requests.post is entered: one request leaves, the caller blocks
Issue(method, url, timeout, payload, before) ==
    /\ request' = [method |-> method, url |-> url, timeout |-> timeout, json |-> payload]
    /\ reply' = None
    /\ result' = None
    /\ nreq' = before + 1
    /\ pc' = "wait"

\* AIClient.__init__ up to the request of _verify_connection
InitCall(c, base_url, timeout) ==
    /\ clients' = [clients EXCEPT ![c] = [base_url |-> rstrip(base_url),
                                          timeout |-> timeout]]
    /\ given' = [given EXCEPT ![c] = [base_url |-> base_url, timeout |-> timeout]]
    /\ op' = "__init__"
    /\ self' = c
    /\ printed' = None
    /\ Issue("GET", clients'[c].base_url \o <<"/status">>, ProbeTimeout, None, 0)

\* AIClient.chat up to its request
ChatCall(c, a) ==
    /\ op' = "chat"
    /\ self' = c
    /\ args' = a
    /\ printed' = None
    /\ Issue("POST", clients[c].base_url \o <<"/chat">>, clients[c].timeout, a, 0)
    /\ UNCHANGED <<clients, given>>

\* client = AIClient(base_url, timeout)
Construct(base_url, timeout) ==
    /\ Idle
    /\ clients["client"] = None
    /\ InitCall("client", base_url, timeout)
    /\ args' = None
    /\ qresponse' = None
    /\ UNCHANGED <<frame, json_error>>

\* the probe ends: _verify_connection prints its warning, __init__ returns
InitReturn ==
    /\ pc = "wait"
    /\ op = "__init__"
    /\ \E o \in Outcomes :
         /\ reply' = o
         /\ result' = verify_connection(o).result
         /\ printed' = verify_connection(o).printed
    /\ pc' = "ready"
    /\ UNCHANGED <<clients, given, frame, op, self, args, request, qresponse, nreq,
                   json_error>>

\* client.chat(prompt, project_url, images)
Chat(a) ==
    /\ Idle
    /\ clients["client"] # None
    /\ ChatCall("client", a)
    /\ qresponse' = None
    /\ UNCHANGED <<frame, json_error>>

\* mutant: a failed request is sent once more before chat gives up
ChatReturnRetry ==
    /\ pc = "wait"
    /\ op = "chat"
    /\ \E o \in Outcomes :
         IF o.kind = "exc" /\ nreq < 2
         THEN /\ Issue(request.method, request.url, request.timeout, request.json, nreq)
         ELSE /\ reply' = o
              /\ result' = chat(o, json_error)
              /\ pc' = "ready"
              /\ UNCHANGED <<request, nreq>>
    /\ UNCHANGED <<clients, given, frame, op, self, args, qresponse, printed, json_error>>

\* mutant: a timeout makes the client raise its own timeout for the next call
ChatReturnBackoff ==
    /\ pc = "wait"
    /\ op = "chat"
    /\ \E o \in Outcomes :
         /\ reply' = o
         /\ result' = chat(o, json_error)
         /\ clients' = IF o.kind = "exc" /\ o.fault \in {"connect_timeout", "read_timeout"}
                       THEN [clients EXCEPT ![self].timeout = 2 * @]
                       ELSE clients
    /\ pc' = "ready"
    /\ UNCHANGED <<given, frame, op, self, args, request, qresponse, nreq,
                   printed, json_error>>

\* the request of chat ends: the rest of the try block and the except clauses
ChatReturn ==
    /\ pc = "wait"
    /\ op = "chat"
    /\ \E o \in Outcomes :
         /\ reply' = o
         /\ result' = chat(o, json_error)
    /\ pc' = "ready"
    /\ UNCHANGED <<clients, given, frame, op, self, args, request, qresponse, nreq,
                   printed, json_error>>

\* get_status, list_projects and reload_engine up to their request
FetchCall(method, verb, path, timeout) ==
    /\ Idle
    /\ clients["client"] # None
    /\ op' = method
    /\ self' = "client"
    /\ Issue(verb, clients["client"].base_url \o <<path>>, timeout, None, 0)
    /\ args' = None
    /\ printed' = None
    /\ qresponse' = None
    /\ UNCHANGED <<clients, given, frame, json_error>>

\* their request ends: raise_for_status, then the decoded body
FetchReturn(method) ==
    /\ pc = "wait"
    /\ op = method
    /\ \E o \in Outcomes :
         /\ reply' = o
         /\ result' = fetch_json(o, json_error)
    /\ pc' = "ready"
    /\ UNCHANGED <<clients, given, frame, op, self, args, request, qresponse, nreq,
                   printed, json_error>>

GetStatus == FetchCall("get_status", "GET", "/status", StatusTimeout)
GetStatusReturn == FetchReturn("get_status")

ListProjects == FetchCall("list_projects", "GET", "/projects", ProjectsTimeout)
ListProjectsReturn == FetchReturn("list_projects")

ReloadEngine == FetchCall("reload_engine", "POST", "/reload", ReloadTimeout)
ReloadEngineReturn == FetchReturn("reload_engine")

\* quick_chat(prompt, base_url, project_url, images): client = AIClient(base_url)
QuickChat(a, base_url) ==
    /\ Idle
    /\ frame' = "quick_chat"
    /\ args' = a
    /\ qresponse' = None
    /\ InitCall("quick", base_url, DefaultTimeout)
    /\ UNCHANGED json_error

\* quick_chat: response = client.chat(prompt, project_url, images=images)
QuickChatChat ==
    /\ frame = "quick_chat"
    /\ pc = "ready"
    /\ op = "__init__"
    /\ result.kind = "return"
    /\ ChatCall("quick", args)
    /\ UNCHANGED <<frame, qresponse, json_error>>

\* quick_chat: its return statement; an exception of chat passes through it
QuickChatReturn ==
    /\ frame = "quick_chat"
    /\ pc = "ready"
    /\ op = "chat"
    /\ qresponse' = result
    /\ result' = IF result.kind = "raise"
                 THEN result
                 ELSE Return(quick_chat_return(result.value))
    /\ op' = "quick_chat"
    /\ frame' = "user"
    /\ clients' = [clients EXCEPT !["quick"] = None]
    /\ given' = [given EXCEPT !["quick"] = None]
    /\ UNCHANGED <<pc, self, args, request, reply, nreq, printed, json_error>>

Next ==
    \/ \E b \in BaseUrls, t \in Timeouts : Construct(b, t)
    \/ InitReturn
    \/ \E a \in ChatArgs : Chat(a)
    \/ ChatReturn
    \/ GetStatus
    \/ GetStatusReturn
    \/ ListProjects
    \/ ListProjectsReturn
    \/ ReloadEngine
    \/ ReloadEngineReturn
    \/ \E a \in ChatArgs, b \in BaseUrls : QuickChat(a, b)
    \/ QuickChatChat
    \/ QuickChatReturn

Spec == Init /\ [][Next]_vars

-----------------------------------------------------------------------------
(* Vocabulary of the properties *)

\* method m has returned or raised, and nothing has been called since
Done(m) == pc = "ready" /\ op = m

\* sub in s, for a sub that is one chunk
Contains(s, sub) == \E i \in 1..Len(s) : s[i] = sub

Is2xx(code) == 200 <= code /\ code < 300
IsHttpError(code) == 400 <= code /\ code < 600

TimeoutFaults == {"connect_timeout", "read_timeout"}
UnreachableFaults == {"refused", "dns", "connect_timeout"}
Fetchers == {"get_status", "list_projects", "reload_engine"}

\* r is a returned ChatResponse with status "error" and a non-empty error string
IsErrorResponse(r) ==
    /\ r.kind = "return"
    /\ r.value.status = PyStr(<<"error">>)
    /\ ~success(r.value)
    /\ r.value.error.t = "str"
    /\ Len(r.value.error.v) > 0

\* r is the ChatResponse chat builds for a timeout
IsTimeoutResponse(r) ==
    /\ IsErrorResponse(r)
    /\ r.value.error = PyStr(TimeoutMessage)

\* r is a ChatResponse whose error says "Request failed"
IsFailedResponse(r) ==
    /\ IsErrorResponse(r)
    /\ Contains(r.value.error.v, "Request failed")

\* the body of the reply is a JSON object
HasObjectBody(o) == o.body.type = "json" /\ o.body.value.t = "dict"

-----------------------------------------------------------------------------
(* C1 *)

-----------------------------------------------------------------------------
(* C2 *)

\* C2 as stated: get_status, list_projects and reload_engine raise on every
\* transport failure, timeout and non-2xx status, and return a value only on
\* a 2xx reply, the value being the decoded body.
C2_AsStated ==
    (pc = "ready" /\ op \in Fetchers) =>
        /\ (reply.kind = "exc" \/ ~Is2xx(reply.code)) => result.kind = "raise"
        /\ result.kind = "return" =>
              /\ reply.kind = "resp"
              /\ Is2xx(reply.code)
              /\ reply.body.type = "json"
              /\ result.value = reply.body.value

\* C2, amended: get_status, list_projects and reload_engine raise on every
\* transport failure, timeout and 4xx/5xx status, and return a value only on
\* a reply whose status is not 4xx/5xx and whose body is JSON, the value
\* being the decoded body.
C2_FetchersRaise ==
    (pc = "ready" /\ op \in Fetchers) =>
        /\ (reply.kind = "exc" \/ IsHttpError(reply.code)) => result.kind = "raise"
        /\ result.kind = "return" =>
              /\ reply.kind = "resp"
              /\ ~IsHttpError(reply.code)
              /\ reply.body.type = "json"
              /\ result.value = reply.body.value
        /\ result.kind \in {"return", "raise"}

C2_Witness ==
    /\ Done("get_status")
    /\ reply.kind = "resp"
    /\ reply.code = 503
    /\ result.kind = "raise"
    /\ result.cls = "HTTPError"

-----------------------------------------------------------------------------
(* C3 *)

\* C3: after chat got a 2xx reply with a JSON object body, the returned
\* ChatResponse has the body's project_id, response, error and
\* images_uploaded (None where absent) and the body's status ("error" where
\* absent); a body with status "success" and a response gives success and that
\* response, a body with status "error" and an error gives failure and that
\* error.
C3_BodyMapsToChatResponse ==
    (Done("chat") /\ reply.kind = "resp" /\ Is2xx(reply.code) /\ HasObjectBody(reply)) =>
        LET d == reply.body.value.v IN
        /\ result.kind = "return"
        /\ \A k \in ChatKeys \ {"status"} :
              result.value[k] = IF k \in DOMAIN d THEN d[k] ELSE None
        /\ result.value.status =
              IF "status" \in DOMAIN d THEN d["status"] ELSE PyStr(<<"error">>)
        /\ ("status" \in DOMAIN d /\ d["status"] = PyStr(<<"success">>)
                /\ "response" \in DOMAIN d)
              => (success(result.value) /\ result.value.response = d["response"])
        /\ ("status" \in DOMAIN d /\ d["status"] = PyStr(<<"error">>)
                /\ "error" \in DOMAIN d)
              => (~success(result.value) /\ result.value.error = d["error"])
        /\ "status" \notin DOMAIN d => ~success(result.value)

C3_Witness ==
    /\ Done("chat")
    /\ reply.kind = "resp"
    /\ reply.code = 200
    /\ HasObjectBody(reply)
    /\ DOMAIN reply.body.value.v = {"status", "response"}
    /\ result.kind = "return"
    /\ success(result.value)
    /\ result.value.response = PyStr(<<"X">>)

-----------------------------------------------------------------------------
(* C4 *)

-----------------------------------------------------------------------------
(* C5 *)

-----------------------------------------------------------------------------
(* C6 *)

\* C6: when quick_chat ends after its chat returned a ChatResponse, it has
\* returned a string: the ChatResponse's response when success, otherwise
\* "Error: " followed by its error.
C6_QuickChatReturnsString ==
    (Done("quick_chat") /\ qresponse.kind = "return") =>
        /\ result.kind = "return"
        /\ result.value.t = "str"
        /\ success(qresponse.value) => result.value = qresponse.value.response
        /\ ~success(qresponse.value) =>
              result.value = PyStr(<<"Error: ">> \o Format(qresponse.value.error))

-----------------------------------------------------------------------------
(* C7 *)

\* C7: when __init__ ends, whatever the outcome of the probe, it has returned
\* normally, base_url and timeout of the new client are set from the
\* arguments, and a probe that failed or answered another status than 200 has
\* printed a warning.
C7_ConstructorNeverRaises ==
    Done("__init__") =>
        /\ result = Return(None)
        /\ clients[self] # None
        /\ clients[self].base_url = rstrip(given[self].base_url)
        /\ clients[self].timeout = given[self].timeout
        /\ (reply.kind = "exc" \/ reply.code # 200) => printed # None

C7_Witness ==
    /\ Done("__init__")
    /\ reply.kind = "resp"
    /\ reply.code = 503
    /\ result = Return(None)
    /\ printed # None
    /\ clients[self] # None

-----------------------------------------------------------------------------
(* C8 *)

\* C8 as stated: after chat got a 2xx reply whose body is not JSON, chat has
\* raised and not returned a ChatResponse.
C8_AsStated ==
    (Done("chat") /\ reply.kind = "resp" /\ Is2xx(reply.code)
        /\ reply.body.type = "text")
        => result.kind = "raise"

\* C8, amended: after chat got a 2xx reply whose body is not JSON, the
\* outcome follows the class response.json() raises: a ValueError propagates
\* to the caller, a requests JSONDecodeError (a RequestException) is returned
\* as a "Request failed" ChatResponse; after a 2xx reply whose body is JSON
\* but no object, chat has raised.
C8_ParseFailure ==
    (Done("chat") /\ reply.kind = "resp" /\ Is2xx(reply.code)) =>
        /\ (reply.body.type = "text" /\ json_error = "ValueError") =>
              (result.kind = "raise" /\ result.cls = "ValueError")
        /\ (reply.body.type = "text" /\ json_error = "JSONDecodeError") =>
              IsFailedResponse(result)
        /\ (reply.body.type = "json" /\ reply.body.value.t # "dict") =>
              (result.kind = "raise" /\ result.cls = "AttributeError")

C8_Witness ==
    /\ Done("chat")
    /\ reply.kind = "resp"
    /\ reply.code = 200
    /\ reply.body.type = "text"
    /\ json_error = "JSONDecodeError"
    /\ IsFailedResponse(result)

-----------------------------------------------------------------------------
(* C9 *)

-----------------------------------------------------------------------------
(* C10 *)

\* C10: in every state, a constructed client's base_url is the constructor's
\* argument with its trailing slashes stripped and its timeout is the
\* constructor's argument; and the result of a finished chat is the one the
\* reply to its own request determines.
C10_Stateless ==
    /\ \A c \in ClientIds :
          clients[c] # None =>
              /\ clients[c].base_url = rstrip(given[c].base_url)
              /\ clients[c].timeout = given[c].timeout
    /\ Done("chat") => result = chat(reply, json_error)

C10_Witness ==
    /\ Done("chat")
    /\ self = "client"
    /\ given["client"].base_url # clients["client"].base_url
    /\ given["client"].timeout # DefaultTimeout
    /\ clients["client"].timeout = given["client"].timeout
    /\ reply.kind = "exc"
    /\ IsErrorResponse(result)

====
